---- MODULE Spec2Model ----
(***************************************************************************)
(* Model of texture-atlas-generator.py: discovery of image sequences in a  *)
(* folder, the single-slot cache in front of it, and the operator that     *)
(* composes the selected sequence into one tilemap image.                  *)
(*                                                                         *)
(* Strings (file names, schemas, paths) are sequences of one-character     *)
(* strings.  Offsets are 0-based as in Python; Slice(s, a, b) is s[a:b].   *)
(***************************************************************************)
EXTENDS Integers, Sequences, FiniteSets, TLC

VARIABLES
    fs,                             \* the file system: folder -> is it a directory, and its
                                    \* entries in the order listdir returns them
    cached_image_sequences,         \* module global, line 56
    cached_image_sequences_path,    \* module global, line 57
    cached_image_sequences_dirty,   \* module global, line 58
    data_images,                    \* bpy.data.images: the image data blocks of the host
    ret,                            \* what the last call did and returned (or that it raised)
    scan_log                        \* history: per path, the folder as its latest scan found it

vars == <<fs, cached_image_sequences, cached_image_sequences_path,
          cached_image_sequences_dirty, data_images, ret, scan_log>>

(***************************************************************************)
(* Bounds of the model.                                                    *)
(***************************************************************************)
MaxLen == 3          \* longest file name of a one-file folder
MaxGroupLen == 2     \* longest file name of a folder with several entries
MaxFiles == 2        \* most entries of a folder whose discovery is examined
MaxFrames == 3       \* most files of a sequence that is composed
MaxColumns == 2      \* largest column_count

(***************************************************************************)
(* Characters and strings.                                                 *)
(***************************************************************************)
Digits == {"0", "1"}
NonDigits == {"a", "#"}
Alphabet == Digits \cup NonDigits

Min(S) == CHOOSE m \in S : \A k \in S : m <= k
Max(S) == CHOOSE m \in S : \A k \in S : m >= k

Names(n) == UNION {[1..k -> Alphabet] : k \in 1..n}

\* Python's s[a:b] for 0 <= a: both ends are clamped to the length.
Slice(s, a, b) ==
    LET lo == IF a > Len(s) THEN Len(s) ELSE a
        hi == IF b > Len(s) THEN Len(s) ELSE b
    IN  SubSeq(s, lo + 1, hi)

DigitValue(c) == IF c = "0" THEN 0 ELSE 1

\* int(text) of a string of decimal digits
RECURSIVE int(_)
int(text) ==
    IF text = <<>> THEN 0
    ELSE 10 * int(SubSeq(text, 1, Len(text) - 1)) + DigitValue(text[Len(text)])

\* str.strip() of a path: leading and trailing blanks removed
RECURSIVE strip(_)
strip(path) ==
    IF path = <<>> THEN path
    ELSE IF Head(path) = " " THEN strip(Tail(path))
    ELSE IF path[Len(path)] = " " THEN strip(SubSeq(path, 1, Len(path) - 1))
    ELSE path

(***************************************************************************)
(* r_last_numerical = compile('(\d+)\D*$') and search(r_last_numerical, f).*)
(* r_last_numerical(file, s) is the set of offsets at which group 1 can    *)
(* end when the pattern is tried at offset s: one or more digits, then     *)
(* only non-digits up to the end of the string.  search scans the offsets  *)
(* left to right and takes the first that matches; \d+ is greedy, so the   *)
(* group ends as far right as a match allows.                              *)
(***************************************************************************)
\* the pattern as '(\d)\D*$': the group takes one digit only
r_last_numerical_one_digit(file, s) ==
    {e \in (s + 1)..Len(file) :
        /\ e = s + 1
        /\ file[e] \in Digits
        /\ \A k \in (e + 1)..Len(file) : file[k] \notin Digits}

r_last_numerical(file, s) ==
    {e \in (s + 1)..Len(file) :
        /\ \A k \in (s + 1)..e : file[k] \in Digits
        /\ \A k \in (e + 1)..Len(file) : file[k] \notin Digits}

\* a search for '(\d+)', which stops at the first digit run of the name
search_first_run(file) ==
    LET starts == {s \in 0..(Len(file) - 1) : file[s + 1] \in Digits}
    IN  IF starts = {}
        THEN [found |-> FALSE, start |-> 0, end |-> 0]
        ELSE [found |-> TRUE, start |-> Min(starts),
              end |-> Max({e \in (Min(starts) + 1)..Len(file) :
                              \A k \in (Min(starts) + 1)..e : file[k] \in Digits})]

search(file) ==
    LET starts == {s \in 0..(Len(file) - 1) : r_last_numerical(file, s) # {}}
    IN  IF starts = {}
        THEN [found |-> FALSE, start |-> 0, end |-> 0]
        ELSE [found |-> TRUE, start |-> Min(starts),
              end |-> Max(r_last_numerical(file, Min(starts)))]

(***************************************************************************)
(* The file system.  A folder holds entries: regular files and             *)
(* sub-directories.  listdir returns them in the folder's own order, which *)
(* is arbitrary: fs keeps the entries in that order.                       *)
(***************************************************************************)
Folder1 == <<"p">>
Folder2 == <<"q">>
Folders == {Folder1, Folder2}

Entry(name, regular) == [name |-> name, isfile |-> regular]

isdir(path) == path \in Folders /\ fs[path].isdir

listdir(path) == fs[path].entries

(***************************************************************************)
(* discover_image_sequences_in_folder(path), lines 82-106.  A file name    *)
(* without a digit makes search return None, and match.start(1) then       *)
(* raises: the call ends in an error and returns nothing.                  *)
(***************************************************************************)
EmptySequences == [schema \in {} |-> <<>>]

Returned(value) == [raised |-> FALSE, value |-> value]
Raised == [raised |-> TRUE, value |-> EmptySequences]

RECURSIVE discover_loop(_, _)
discover_loop(files, image_sequences) ==
    IF files = <<>> THEN Returned(image_sequences)
    ELSE
        LET file == Head(files)
            match == search(file)
        IN  IF ~match.found THEN Raised
            ELSE
                LET schema == Slice(file, 0, match.start) \o <<"#">>
                                  \o Slice(file, match.end, Len(file))
                    frame == int(Slice(file, match.start, match.end))
                IN  IF schema \notin DOMAIN image_sequences
                    THEN discover_loop(Tail(files),
                             (schema :> <<(<<frame, file>>)>>) @@ image_sequences)
                    ELSE discover_loop(Tail(files),
                             [image_sequences EXCEPT
                                 ![schema] = Append(@, <<frame, file>>)])

discover_image_sequences_in_folder(path) ==
    IF isdir(strip(path))
    THEN LET regular == SelectSeq(listdir(strip(path)), LAMBDA e : e.isfile)
             files == [i \in 1..Len(regular) |-> regular[i].name]
         IN  discover_loop(files, EmptySequences)
    ELSE Returned(EmptySequences)

(***************************************************************************)
(* get_image_sequences_in_folder(path), lines 61-79, as a function of the  *)
(* cache it finds.  The result names what the call returned (or that it    *)
(* raised), whether it scanned the folder, and the cache it leaves.  An    *)
(* error inside the scan leaves the three globals as they were.            *)
(***************************************************************************)
NoPath == <<"None">>

Cache == [sequences |-> cached_image_sequences,
          path |-> cached_image_sequences_path,
          dirty |-> cached_image_sequences_dirty]

\* the cache with "and" for "or" in line 74: a new path alone does not make it scan
get_image_sequences_in_folder_and(path, cache) ==
    IF path # cache.path /\ cache.dirty
    THEN LET found == discover_image_sequences_in_folder(path)
         IN  IF found.raised
             THEN [raised |-> TRUE, scanned |-> TRUE, value |-> EmptySequences,
                   cache |-> cache]
             ELSE [raised |-> FALSE, scanned |-> TRUE, value |-> found.value,
                   cache |-> [sequences |-> found.value, path |-> path, dirty |-> FALSE]]
    ELSE [raised |-> FALSE, scanned |-> FALSE, value |-> cache.sequences,
          cache |-> cache]

get_image_sequences_in_folder(path, cache) ==
    IF path # cache.path \/ cache.dirty
    THEN LET found == discover_image_sequences_in_folder(path)
         IN  IF found.raised
             THEN [raised |-> TRUE, scanned |-> TRUE, value |-> EmptySequences,
                   cache |-> cache]
             ELSE [raised |-> FALSE, scanned |-> TRUE, value |-> found.value,
                   cache |-> [sequences |-> found.value, path |-> path, dirty |-> FALSE]]
    ELSE [raised |-> FALSE, scanned |-> FALSE, value |-> cache.sequences,
          cache |-> cache]

(***************************************************************************)
(* The properties the operator reads, lines 146-168.                       *)
(***************************************************************************)
image_count_get(path, sequence, cache) ==
    LET got == get_image_sequences_in_folder(path, cache)
    IN  IF got.raised
        THEN [raised |-> TRUE, scanned |-> got.scanned, count |-> 0, cache |-> got.cache]
        ELSE [raised |-> FALSE, scanned |-> got.scanned,
              count |-> IF sequence \in DOMAIN got.value
                        THEN Len(got.value[sequence]) ELSE 0,
              cache |-> got.cache]

\* ceil(a / b) for a >= 0, b >= 1
ceil_div(a, b) == (a + b - 1) \div b

\* the row count rounded down
row_count_get_floor(image_count, column_count) == image_count \div column_count

row_count_get(image_count, column_count) == ceil_div(image_count, column_count)

(***************************************************************************)
(* sorted(image_sequences[sequence], key = lambda x: x[1]), line 294:      *)
(* Python compares strings by code point, a proper prefix first.           *)
(***************************************************************************)
ord(c) ==
    IF c = " " THEN 32 ELSE IF c = "#" THEN 35 ELSE IF c = "0" THEN 48
    ELSE IF c = "1" THEN 49 ELSE 97

RECURSIVE str_less(_, _)
str_less(a, b) ==
    IF b = <<>> THEN FALSE
    ELSE IF a = <<>> THEN TRUE
    ELSE IF Head(a) # Head(b) THEN ord(Head(a)) < ord(Head(b))
    ELSE str_less(Tail(a), Tail(b))

RECURSIVE insert_sorted(_, _)
insert_sorted(x, sorted_list) ==
    IF sorted_list = <<>> THEN <<x>>
    ELSE IF str_less(x[2], Head(sorted_list)[2]) THEN <<x>> \o sorted_list
    ELSE <<Head(sorted_list)>> \o insert_sorted(x, Tail(sorted_list))

\* a stable sort: an element goes after the equal ones already placed
RECURSIVE sorted(_)
sorted(list) ==
    IF list = <<>> THEN <<>>
    ELSE insert_sorted(list[Len(list)], sorted(SubSeq(list, 1, Len(list) - 1)))

sorted_files(members) == LET s == sorted(members) IN [i \in 1..Len(s) |-> s[i][2]]

(***************************************************************************)
(* bpy.data.images.  A data block has a unique name: the host appends a    *)
(* numeric suffix (".001", ...) to a name that is taken.  A size is        *)
(* <<width, height>>, the source's size[0] and size[1].                    *)
(***************************************************************************)
width(size) == size[1]
height(size) == size[2]

output_name == <<"T">>

image_names(store) == {store[k].name : k \in 1..Len(store)}

unique_name(store, base) ==
    IF [base |-> base, suffix |-> 0] \notin image_names(store)
    THEN [base |-> base, suffix |-> 0]
    ELSE [base |-> base,
          suffix |-> Min({n \in 1..(Len(store) + 1) :
                             [base |-> base, suffix |-> n] \notin image_names(store)})]

images_remove(store, name) == SelectSeq(store, LAMBDA img : img.name # name)

\* the pixel content of a file: every component of its image carries the file's code
RECURSIVE ink(_)
ink(file) ==
    IF file = <<>> THEN 0
    ELSE 7 * ink(SubSeq(file, 1, Len(file) - 1)) + (ord(file[Len(file)]) % 5) + 2

images_load(store, file, size) ==
    [name |-> unique_name(store, file), size |-> size, source |-> TRUE,
     pixels |-> [k \in 1..(width(size) * height(size) * 4) |-> ink(file)]]

images_new(store, name, w, h) ==
    [name |-> unique_name(store, name), size |-> <<w, h>>, source |-> FALSE,
     pixels |-> <<>>]

(***************************************************************************)
(* The copy of the tiles into the tilemap, lines 325-348.                  *)
(***************************************************************************)
background == <<0, 0, 0, 1>>

\* [0.0, 0.0, 0.0, 1.0] * width * height
blank_pixels(w, h) == [k \in 1..(4 * w * h) |-> background[((k - 1) % 4) + 1]]

\* a slice bound as Python normalises it against a list of length n
slice_bound(a, n) ==
    IF a < 0 THEN (IF a + n < 0 THEN 0 ELSE a + n) ELSE (IF a > n THEN n ELSE a)

\* list[a:b]
py_slice(list, a, b) ==
    SubSeq(list, slice_bound(a, Len(list)) + 1, slice_bound(b, Len(list)))

\* list[a:b] = values
slice_assign(list, a, b, values) ==
    LET lo == slice_bound(a, Len(list))
        hi == IF slice_bound(b, Len(list)) < lo THEN lo ELSE slice_bound(b, Len(list))
    IN  SubSeq(list, 1, lo) \o values \o SubSeq(list, hi + 1, Len(list))

\* the row index without the "- 1" of line 333
row_index_off_by_one(i, row_count, column_count, row_order) ==
    IF row_order = "top_to_bottom"
    THEN row_count - (i \div column_count)
    ELSE i \div column_count

row_index(i, row_count, column_count, row_order) ==
    IF row_order = "top_to_bottom"
    THEN row_count - 1 - (i \div column_count)
    ELSE i \div column_count

column_index(i, column_count) == i % column_count

\* where line y of tile i is read and written, lines 338-345
tilemap_offset(i, tile_size, tilemap_size, row_count, column_count, row_order) ==
    row_index(i, row_count, column_count, row_order) * width(tilemap_size) * height(tile_size)
        + column_index(i, column_count) * width(tile_size)

line_copy(i, y, tile_size, tilemap_size, row_count, column_count, row_order) ==
    LET tile_offset == y * width(tile_size)
        tile_x1 == tile_offset * 4
        tile_x2 == tile_x1 + width(tile_size) * 4
        tilemap_x1 == (tilemap_offset(i, tile_size, tilemap_size, row_count,
                                      column_count, row_order)
                          + y * width(tilemap_size)) * 4
        tilemap_x2 == tilemap_x1 + width(tile_size) * 4
    IN  [i |-> i, y |-> y, tile_x1 |-> tile_x1, tile_x2 |-> tile_x2,
         tilemap_x1 |-> tilemap_x1, tilemap_x2 |-> tilemap_x2]

\* job: the images, tilemap_size, row_count, column_count, row_order of the call;
\* st: tilemap_pixels so far and the line copies done so far
copy_line(st, job, i, y) ==
    LET tile == job.images[i + 1]
        c == line_copy(i, y, tile.size, job.tilemap_size, job.row_count,
                       job.column_count, job.row_order)
        line == py_slice(tile.pixels, c.tile_x1, c.tile_x2)
    IN  [pixels |-> slice_assign(st.pixels, c.tilemap_x1, c.tilemap_x2, line),
         copies |-> Append(st.copies,
                       [i |-> i, y |-> y, tile_x1 |-> c.tile_x1, tile_x2 |-> c.tile_x2,
                        tilemap_x1 |-> c.tilemap_x1, tilemap_x2 |-> c.tilemap_x2,
                        read |-> Len(line), tile_length |-> Len(tile.pixels),
                        tilemap_length |-> Len(st.pixels)])]

RECURSIVE copy_tile(_, _, _, _)
copy_tile(st, job, i, y) ==
    IF y >= height(job.images[i + 1].size) THEN st
    ELSE copy_tile(copy_line(st, job, i, y), job, i, y + 1)

RECURSIVE copy_tiles(_, _, _)
copy_tiles(st, job, i) ==
    IF i >= job.file_count THEN st
    ELSE copy_tiles(copy_tile(st, job, i, 0), job, i + 1)

(***************************************************************************)
(* TEXTURE_ATLAS_GENERATOR_OT_generate_texture_atlas.execute, lines        *)
(* 288-362.  props are the properties of the scene; loads is what the host *)
(* answers for every file of the sequence: whether it loads and with which *)
(* size.  The result names the stage the call reached ("finished", or the  *)
(* stage that raised), the locals it had then, and the cache and the data  *)
(* blocks it leaves.                                                       *)
(***************************************************************************)
no_name == [base |-> <<>>, suffix |-> 0]

\* the loop of lines 307-312; bpy.data.images.load raises on a file it cannot read
RECURSIVE load_images(_, _, _, _)
load_images(st, files, loads, k) ==
    IF k > Len(files) THEN st
    ELSE IF ~loads[k].ok THEN [st EXCEPT !.raised = TRUE]
    ELSE
        LET img == images_load(st.store, files[k], loads[k].size)
            max_w == IF width(img.size) > width(st.max_size)
                     THEN width(img.size) ELSE width(st.max_size)
            max_h == IF height(img.size) > height(st.max_size)
                     THEN height(img.size) ELSE height(st.max_size)
        IN  load_images([raised |-> FALSE, store |-> Append(st.store, img),
                         images |-> Append(st.images, img),
                         max_size |-> <<max_w, max_h>>],
                        files, loads, k + 1)

RECURSIVE remove_all(_, _)
remove_all(store, images) ==
    IF images = <<>> THEN store
    ELSE remove_all(images_remove(store, Head(images).name), Tail(images))

\* line 294 with image_sequences.get(sequence, []): no error, no files
select_files_or_none(image_sequences, sequence) ==
    IF sequence \notin DOMAIN image_sequences
    THEN [raised |-> FALSE, files |-> <<>>]
    ELSE [raised |-> FALSE, files |-> sorted_files(image_sequences[sequence])]

\* image_sequences[sequence] of line 294: a KeyError if the sequence is no key
select_files(image_sequences, sequence) ==
    IF sequence \notin DOMAIN image_sequences
    THEN [raised |-> TRUE, files |-> <<>>]
    ELSE [raised |-> FALSE, files |-> sorted_files(image_sequences[sequence])]

outcome(stage, scans, cache, store, files, images, row_count, tilemap_size, tilemap_name, removed, st) ==
    [stage |-> stage, raised |-> stage # "finished", scans |-> scans,
     cache |-> cache, store |-> store,
     files |-> files, images |-> images, row_count |-> row_count,
     tilemap_size |-> tilemap_size, tilemap_name |-> tilemap_name,
     removed |-> removed, copies |-> st.copies, tilemap_pixels |-> st.pixels]

no_copies == [pixels |-> <<>>, copies |-> <<>>]

\* lines 350-362: the pixels go to the new image and the sources are removed
execute_assign(scans, cache, files, images, row_count, tilemap_size, tilemap_name, removed, store, st) ==
    \* tilemap_img.pixels takes exactly width * height * 4 components
    IF Len(st.pixels) # width(tilemap_size) * height(tilemap_size) * 4
    THEN outcome("assign", scans, cache, store, files, images, row_count, tilemap_size,
                 tilemap_name, removed, st)
    ELSE outcome("finished", scans, cache,
                 remove_all([k \in 1..Len(store) |->
                                IF store[k].name = tilemap_name
                                THEN [store[k] EXCEPT !.pixels = st.pixels] ELSE store[k]],
                            images),
                 files, images, row_count, tilemap_size, tilemap_name, removed, st)

\* lines 314-348: the tilemap image is created and the tiles are copied
execute_tilemap(props, scans, cache, files, row_count, loaded) ==
    IF loaded.raised
    THEN outcome("load", scans, cache, loaded.store, files, loaded.images, row_count,
                 <<0, 0>>, no_name, FALSE, no_copies)
    ELSE
    LET tilemap_size == <<width(loaded.max_size) * props.column_count,
                          height(loaded.max_size) * row_count>>
        removed == /\ props.overwrite_existing
                   /\ [base |-> output_name, suffix |-> 0] \in image_names(loaded.store)
        store1 == IF removed
                  THEN images_remove(loaded.store, [base |-> output_name, suffix |-> 0])
                  ELSE loaded.store
        tilemap_img == images_new(store1, output_name, width(tilemap_size),
                                  height(tilemap_size))
        job == [images |-> loaded.images, file_count |-> Len(files),
                tilemap_size |-> tilemap_size, row_count |-> row_count,
                column_count |-> props.column_count, row_order |-> props.row_order]
    IN  execute_assign(scans, cache, files, loaded.images, row_count, tilemap_size,
                       tilemap_img.name, removed, Append(store1, tilemap_img),
                       copy_tiles([pixels |-> blank_pixels(width(tilemap_size),
                                                           height(tilemap_size)),
                                   copies |-> <<>>], job, 0))

\* lines 297-312: props.row_count reads the cache again, then the files are loaded
execute_load(props, loads, store, got, files, counted) ==
    IF counted.raised
    THEN outcome("row_count", <<got.scanned, counted.scanned>>, counted.cache, store, files,
                 <<>>, 0, <<0, 0>>, no_name, FALSE, no_copies)
    ELSE execute_tilemap(props, <<got.scanned, counted.scanned>>, counted.cache, files,
                         row_count_get(counted.count, props.column_count),
                         load_images([raised |-> FALSE, store |-> store, images |-> <<>>,
                                      max_size |-> <<0, 0>>], files, loads, 1))

\* lines 293-294: the files of the selected sequence
execute_files(props, loads, store, got, selected) ==
    IF selected.raised
    THEN outcome("sequence", <<got.scanned>>, got.cache, store, <<>>, <<>>, 0, <<0, 0>>,
                 no_name, FALSE, no_copies)
    ELSE execute_load(props, loads, store, got, selected.files,
                      image_count_get(props.path, props.sequence, got.cache))

\* lines 291-292: the image sequences of the folder
execute_sequences(props, loads, store, got) ==
    IF got.raised
    THEN outcome("discover", <<got.scanned>>, got.cache, store, <<>>, <<>>, 0, <<0, 0>>,
                 no_name, FALSE, no_copies)
    ELSE execute_files(props, loads, store, got, select_files(got.value, props.sequence))

execute(props, loads, cache, store) ==
    execute_sequences(props, loads, store, get_image_sequences_in_folder(props.path, cache))

(***************************************************************************)
(* Folders and the states before any call.                                 *)
(***************************************************************************)
NotADirectory == [isdir |-> FALSE, entries |-> <<>>]
Directory(entries) == [isdir |-> TRUE, entries |-> entries]

names_of(entries) == {entries[k].name : k \in 1..Len(entries)}

\* no two entries of a folder have the same name
DistinctNames(entries) ==
    \A i, j \in 1..Len(entries) : entries[i].name = entries[j].name => i = j

Idle == [op |-> "idle"]

\* the paths the scene's path property takes: Folder1 is also named with a leading blank
Paths == {Folder1, <<" ">> \o Folder1, Folder2}

NeverScanned == [seen |-> FALSE, folder |-> NotADirectory]
NothingScanned == [p \in Paths |-> NeverScanned]

\* the history after a call for path that did or did not scan
logged(path, scanned) ==
    IF scanned
    THEN [scan_log EXCEPT ![path] = [seen |-> TRUE,
                                     folder |-> IF isdir(strip(path)) THEN fs[strip(path)]
                                                ELSE NotADirectory]]
    ELSE scan_log

NothingCached ==
    /\ cached_image_sequences = EmptySequences
    /\ cached_image_sequences_path = NoPath
    /\ cached_image_sequences_dirty = FALSE

(***************************************************************************)
(* SpecDiscover: discover_image_sequences_in_folder applied to a folder.   *)
(* Folder1 holds one file with a name of up to MaxLen characters, or up to *)
(* MaxFiles entries (files, and sub-directories with a one-character name) *)
(* with names of up to MaxGroupLen characters, in any order, or is no      *)
(* directory.  The path names Folder1 with a leading blank.                *)
(***************************************************************************)
DiscoverEntries ==
    {Entry(n, TRUE) : n \in Names(MaxGroupLen)} \cup {Entry(n, FALSE) : n \in Names(1)}

FolderOf(entries) ==
    [d \in Folders |-> IF d = Folder1 THEN Directory(entries) ELSE NotADirectory]

InitDiscover ==
    /\ \/ fs = [d \in Folders |-> NotADirectory]
       \/ \E n \in Names(MaxLen) : fs = FolderOf(<<Entry(n, TRUE)>>)
       \/ \E k \in 0..MaxFiles : \E entries \in [1..k -> DiscoverEntries] :
              DistinctNames(entries) /\ fs = FolderOf(entries)
    /\ NothingCached
    /\ data_images = <<>>
    /\ ret = Idle
    /\ scan_log = NothingScanned

Discover ==
    /\ ret = Idle
    /\ \E path \in {<<" ">> \o Folder1} :
           \E found \in {discover_image_sequences_in_folder(path)} :
               ret' = [op |-> "discover", path |-> path, raised |-> found.raised,
                       value |-> found.value]
    /\ UNCHANGED <<fs, cached_image_sequences, cached_image_sequences_path,
                   cached_image_sequences_dirty, data_images, scan_log>>

SpecDiscover == InitDiscover /\ [][Discover]_vars

(***************************************************************************)
(* What the documentation says of a file name, stated without the regular  *)
(* expression: the last digit of the name ends the run, the run reaches    *)
(* left as far as digits go.                                               *)
(***************************************************************************)
HasDigit(file) == \E k \in 1..Len(file) : file[k] \in Digits

RunEnd(file) == Max({k \in 1..Len(file) : file[k] \in Digits})
RunStart(file) ==
    Min({k \in 1..RunEnd(file) : \A j \in k..RunEnd(file) : file[j] \in Digits})
LastRun(file) == SubSeq(file, RunStart(file), RunEnd(file))

MaskOf(file) ==
    SubSeq(file, 1, RunStart(file) - 1) \o <<"#">> \o SubSeq(file, RunEnd(file) + 1, Len(file))

RECURSIVE Power10(_)
Power10(n) == IF n = 0 THEN 1 ELSE 10 * Power10(n - 1)

RECURSIVE DecimalValue(_)
DecimalValue(run) ==
    IF run = <<>> THEN 0
    ELSE (IF Head(run) = "1" THEN Power10(Len(run) - 1) ELSE 0) + DecimalValue(Tail(run))

\* the files a scan of the folder of path sees
RegularFiles(path) ==
    IF isdir(strip(path))
    THEN LET entries == fs[strip(path)].entries
         IN  {entries[k].name : k \in {j \in 1..Len(entries) : entries[j].isfile}}
    ELSE {}

Members(value, schema) == {value[schema][k] : k \in 1..Len(value[schema])}
GroupsOf(value, file) == {schema \in DOMAIN value : \E m \in Members(value, schema) : m[2] = file}

Discovered == ret.op = "discover" /\ ~ret.raised

(***************************************************************************)
(* C3: a file name without a digit is left out of every sequence, the      *)
(* other files of the folder are grouped, and discovery returns normally.  *)
(***************************************************************************)
C3_NoDigitSkipped ==
    (ret.op = "discover" /\ \E file \in RegularFiles(ret.path) : ~HasDigit(file))
        => /\ ~ret.raised
           /\ \A file \in RegularFiles(ret.path) :
                  IF HasDigit(file) THEN GroupsOf(ret.value, file) # {}
                  ELSE GroupsOf(ret.value, file) = {}

(***************************************************************************)
(* C5 as claimed: whatever the file names, every schema holds exactly one  *)
(* placeholder, and putting a member's digit run back in its place gives   *)
(* the member's file name.                                                 *)
(***************************************************************************)
Placeholders(schema) == {k \in 1..Len(schema) : schema[k] = "#"}

PutBack(schema, k, run) == SubSeq(schema, 1, k - 1) \o run \o SubSeq(schema, k + 1, Len(schema))

RoundTrip(schema, file) ==
    /\ Cardinality(Placeholders(schema)) = 1
    /\ \A k \in Placeholders(schema) : PutBack(schema, k, LastRun(file)) = file

C5_RoundTripAnyName ==
    Discovered =>
        \A schema \in DOMAIN ret.value : \A m \in Members(ret.value, schema) :
            MaskOf(m[2]) = schema /\ RoundTrip(schema, m[2])

(***************************************************************************)
(* C5 amended: the schema of every member is its file name with the digit  *)
(* run replaced by the placeholder; for a member whose file name holds no  *)
(* '#' of its own, the schema holds exactly one placeholder and putting    *)
(* the digit run back gives the file name.                                 *)
(***************************************************************************)
C5_RoundTrip ==
    Discovered =>
        \A schema \in DOMAIN ret.value : \A m \in Members(ret.value, schema) :
            /\ MaskOf(m[2]) = schema
            /\ (\A k \in 1..Len(m[2]) : m[2][k] # "#") => RoundTrip(schema, m[2])

\* a sequence of two files was discovered whose names hold no '#'
C5_Witness ==
    /\ Discovered
    /\ \E schema \in DOMAIN ret.value :
           /\ Len(ret.value[schema]) = 2
           /\ \A m \in Members(ret.value, schema) : \A k \in 1..Len(m[2]) : m[2][k] # "#"

FrameFiles == << <<"1">>, <<"0">>, <<"0", "1">>, <<"1", "0">>, <<"0", "0">>, <<"1", "1">> >>

FrameListing(k) == [i \in 1..k |-> Entry(FrameFiles[i], TRUE)]

Extras == {Entry(<<"a">>, TRUE), Entry(<<"a", "0">>, TRUE), Entry(<<"a">>, FALSE)}

\* what a folder holds at one time or another: nothing, one or two frames of a
\* sequence, a frame beside a file without a digit, or it is no directory
ChangingFolders ==
    {Directory(FrameListing(0)), Directory(FrameListing(1)), Directory(FrameListing(2)),
     Directory(FrameListing(1) \o <<Entry(<<"a">>, TRUE)>>), NotADirectory}

Init ==
    /\ fs \in [Folders -> ChangingFolders]
    /\ NothingCached
    /\ data_images = <<>>
    /\ ret = Idle
    /\ scan_log = NothingScanned

GetImageSequences ==
    \E path \in Paths :
        \E got \in {get_image_sequences_in_folder(path, Cache)} :
            /\ cached_image_sequences' = got.cache.sequences
            /\ cached_image_sequences_path' = got.cache.path
            /\ cached_image_sequences_dirty' = got.cache.dirty
            /\ ret' = [op |-> "get", path |-> path, raised |-> got.raised,
                       scanned |-> got.scanned, value |-> got.value]
            /\ scan_log' = logged(path, got.scanned)
            /\ UNCHANGED <<fs, data_images>>

\* TEXTURE_ATLAS_GENERATOR_OT_mark_image_sequences_cache_dirty.execute
MarkDirty ==
    /\ cached_image_sequences_dirty' = TRUE
    /\ ret' = [op |-> "mark_dirty"]
    /\ UNCHANGED <<fs, cached_image_sequences, cached_image_sequences_path,
                   data_images, scan_log>>

\* the environment: the content of a folder changes, a folder appears or goes
ChangeFolder ==
    /\ \E d \in Folders : \E folder \in ChangingFolders : fs' = [fs EXCEPT ![d] = folder]
    /\ UNCHANGED <<cached_image_sequences, cached_image_sequences_path,
                   cached_image_sequences_dirty, data_images, ret, scan_log>>

Next == GetImageSequences \/ MarkDirty \/ ChangeFolder

Spec == Init /\ [][Next]_vars

\* what discovery returns for a folder as it was found
DiscoveryOf(folder) ==
    IF folder.isdir
    THEN LET regular == SelectSeq(folder.entries, LAMBDA e : e.isfile)
         IN  discover_loop([i \in 1..Len(regular) |-> regular[i].name], EmptySequences)
    ELSE Returned(EmptySequences)

FolderAt(path) == IF isdir(strip(path)) THEN fs[strip(path)] ELSE NotADirectory

(***************************************************************************)
(* C4: a call for path p scans exactly if p is not the cached path or the  *)
(* cache is dirty; otherwise it returns the cached mapping and reads no    *)
(* folder.  When a call returns, the cached path is p, the cache is clean, *)
(* and the mapping returned is the cached one: the discovery of p's folder *)
(* as its latest scan found it.                                            *)
(***************************************************************************)
C4_CacheLaw ==
    [][(ret'.op = "get" /\ fs' = fs) =>
          /\ ret'.scanned <=> (\/ ret'.path # cached_image_sequences_path
                               \/ cached_image_sequences_dirty)
          /\ ~ret'.scanned =>
                 /\ ~ret'.raised
                 /\ ret'.value = cached_image_sequences
                 /\ scan_log' = scan_log
          /\ ret'.scanned => scan_log'[ret'.path] = [seen |-> TRUE, folder |-> FolderAt(ret'.path)]
          /\ ~ret'.raised =>
                 /\ cached_image_sequences_path' = ret'.path
                 /\ cached_image_sequences_dirty' = FALSE
                 /\ cached_image_sequences' = ret'.value
                 /\ scan_log'[ret'.path].seen
                 /\ DiscoveryOf(scan_log'[ret'.path].folder) = Returned(ret'.value)
      ]_vars

\* a call returned the cached mapping without a scan although the folder holds other files now
C4_Witness ==
    /\ ret.op = "get"
    /\ ~ret.scanned
    /\ ~ret.raised
    /\ DOMAIN ret.value # {}
    /\ DiscoveryOf(FolderAt(ret.path)) # Returned(ret.value)

(***************************************************************************)
(* SpecGenerate: one run of the operator from the states it can be started *)
(* in.  Folder1 holds up to MaxFrames frames of one sequence, or a frame   *)
(* beside another entry, or is no directory; the cache is empty, or holds  *)
(* what an earlier scan of Folder1 found (the folder may have changed, the *)
(* refresh button may have been pressed since); an image with the output   *)
(* name may exist.  The scene's properties and what the files load as are  *)
(* the inputs of the run.                                                  *)
(***************************************************************************)
GenerateFolders ==
    {Directory(FrameListing(k)) : k \in 0..MaxFrames}
        \cup {Directory(FrameListing(1) \o <<x>>) : x \in Extras}
        \cup {NotADirectory}

Sizes == {<<1, 1>>, <<2, 1>>, <<1, 2>>, <<2, 2>>}

LoadResults ==
    {[ok |-> TRUE, size |-> z] : z \in Sizes} \cup {[ok |-> FALSE, size |-> <<0, 0>>]}

\* what the n files load as; nothing is loaded after the first failure
LoadChoices(n) ==
    {l \in [1..n -> LoadResults] : \A k \in 1..n : ~l[k].ok => \A j \in k..n : ~l[j].ok}

none_item == <<"n", "o", "n", "e">>

Selections == {<<"#">>, <<"a", "#">>, none_item}

RowOrders == {"top_to_bottom", "bottom_to_top"}

\* the tilemap an earlier run made of the one-pixel frame "1"
old_image ==
    [name |-> [base |-> output_name, suffix |-> 0], size |-> <<1, 1>>, source |-> FALSE,
     pixels |-> [k \in 1..4 |-> ink(<<"1">>)]]

InitGenerate ==
    /\ \E folder \in GenerateFolders :
           fs = [d \in Folders |-> IF d = Folder1 THEN folder ELSE NotADirectory]
    /\ \/ NothingCached /\ scan_log = NothingScanned
       \/ \E j \in 0..MaxFrames :
              /\ cached_image_sequences = DiscoveryOf(Directory(FrameListing(j))).value
              /\ cached_image_sequences_path = Folder1
              /\ cached_image_sequences_dirty \in BOOLEAN
              /\ scan_log = [NothingScanned EXCEPT
                                ![Folder1] = [seen |-> TRUE,
                                              folder |-> Directory(FrameListing(j))]]
    /\ data_images \in {<<>>, <<old_image>>}
    /\ ret = Idle

\* the files the run will try to load, in the order of line 294
files_to_load(path, sequence) ==
    LET got == get_image_sequences_in_folder(path, Cache)
    IN  IF got.raised \/ sequence \notin DOMAIN got.value THEN <<>>
        ELSE sorted_files(got.value[sequence])

\* join(folder_path, file) of line 308 names a regular file; the path is not stripped here
exists(folder_path, file) ==
    /\ isdir(folder_path)
    /\ \E k \in 1..Len(listdir(folder_path)) : listdir(folder_path)[k] = Entry(file, TRUE)

Generate ==
    /\ ret = Idle
    /\ \E path \in Paths, sequence \in Selections, overwrite_existing \in BOOLEAN,
          column_count \in 1..MaxColumns, row_order \in RowOrders :
         \E props \in {[path |-> path, sequence |-> sequence,
                        overwrite_existing |-> overwrite_existing,
                        column_count |-> column_count, row_order |-> row_order]} :
         \E files \in {files_to_load(path, sequence)} :
         \E loads \in LoadChoices(Len(files)) :
             \* the host loads no file that is not there
             /\ \A k \in 1..Len(files) : loads[k].ok => exists(path, files[k])
             /\ \E r \in {execute(props, loads, Cache, data_images)} :
                 /\ ret' = [op |-> "generate", props |-> props, loads |-> loads,
                            result |-> r]
                 /\ cached_image_sequences' = r.cache.sequences
                 /\ cached_image_sequences_path' = r.cache.path
                 /\ cached_image_sequences_dirty' = r.cache.dirty
                 /\ data_images' = r.store
                 /\ scan_log' = logged(path, \E k \in 1..Len(r.scans) : r.scans[k])
    /\ UNCHANGED fs

SpecGenerate == InitGenerate /\ [][Generate]_vars

(***************************************************************************)
(* What the documentation says of the tilemap, stated from the images the  *)
(* run loaded.                                                             *)
(***************************************************************************)
Generated == ret.op = "generate"
Finished == Generated /\ ret.result.stage = "finished"
Created == Generated /\ ret.result.tilemap_name # no_name

ImageCount == Len(ret.result.images)
CellWidth == Max({width(ret.result.images[k].size) : k \in 1..ImageCount} \cup {0})
CellHeight == Max({height(ret.result.images[k].size) : k \in 1..ImageCount} \cup {0})
ColumnCount == ret.props.column_count
\* ceil(ImageCount / ColumnCount): the least number of rows that hold the images
RowCount == Min({r \in 0..ImageCount : r * ColumnCount >= ImageCount})
AtlasWidth == CellWidth * ColumnCount
AtlasHeight == CellHeight * RowCount

GridColumn(i) == i % ColumnCount
GridRow(i) == i \div ColumnCount
DestinationRow(i) ==
    IF ret.props.row_order = "top_to_bottom" THEN RowCount - 1 - GridRow(i) ELSE GridRow(i)

Copies == {ret.result.copies[k] : k \in 1..Len(ret.result.copies)}

MixedSizes == \E a, b \in 1..ImageCount : ret.result.images[a].size # ret.result.images[b].size

(***************************************************************************)
(* C1: line y of image i is written at pixel column gridColumn * cellWidth *)
(* of pixel row destRow * cellHeight + y of the tilemap, for every image   *)
(* and line, whatever the sizes of the images.                             *)
(***************************************************************************)
C1_Placement ==
    Finished =>
        /\ \A i \in 0..(ImageCount - 1) :
               \A y \in 0..(height(ret.result.images[i + 1].size) - 1) :
                   Cardinality({c \in Copies : c.i = i /\ c.y = y}) = 1
        /\ \A c \in Copies :
               c.tilemap_x1 = ((DestinationRow(c.i) * CellHeight + c.y) * AtlasWidth
                                   + GridColumn(c.i) * CellWidth) * 4

(***************************************************************************)
(* C2: the tilemap that is created is max width * column_count wide and    *)
(* max height * ceil(n / column_count) high, n the number of images the    *)
(* run loaded: all the files of the selected sequence.                     *)
(***************************************************************************)
C2_AtlasSize ==
    Created =>
        /\ ImageCount = Len(ret.result.files)
        /\ ImageCount >= 1
        /\ ret.result.tilemap_size = <<AtlasWidth, AtlasHeight>>
        /\ \E k \in 1..Len(data_images) :
               /\ data_images[k].name = ret.result.tilemap_name
               /\ data_images[k].size = <<AtlasWidth, AtlasHeight>>

\* three images of different sizes were composed in two columns, so in two rows
C2_Witness ==
    /\ Finished
    /\ ImageCount = 3
    /\ ColumnCount = 2
    /\ MixedSizes
    /\ ret.result.tilemap_size[2] = 2 * CellHeight

(***************************************************************************)
(* C6: with k > 0 cells more than images, exactly k cells of the tilemap   *)
(* receive no pixel of a source image and keep the background, and each of *)
(* the other cells receives the pixels of exactly one image.               *)
(***************************************************************************)
Cells == (0..(RowCount - 1)) \X (0..(ColumnCount - 1))

\* the cell of component index x of tilemap_pixels
CellOf(x) == <<((x \div 4) \div AtlasWidth) \div CellHeight, ((x \div 4) % AtlasWidth) \div CellWidth>>

Writers(cell) ==
    {c.i : c \in {d \in Copies : \E x \in d.tilemap_x1..(d.tilemap_x2 - 1) : CellOf(x) = cell}}

Untouched(cell) ==
    /\ Writers(cell) = {}
    /\ \A x \in 0..(Len(ret.result.tilemap_pixels) - 1) :
           CellOf(x) = cell => ret.result.tilemap_pixels[x + 1] = background[(x % 4) + 1]

C6_EmptyTiles ==
    (Finished /\ RowCount * ColumnCount > ImageCount) =>
        /\ Cardinality({cell \in Cells : Untouched(cell)}) = RowCount * ColumnCount - ImageCount
        /\ \A cell \in Cells : ~Untouched(cell) => Cardinality(Writers(cell)) = 1

(***************************************************************************)
(* C7: when a file of the sequence fails to load, the run leaves the data  *)
(* blocks as it found them: no tilemap is created, no image with the       *)
(* output name is removed, the images loaded before the failure are gone.  *)
(***************************************************************************)
C7_LoadFailureLeavesNoTrace ==
    [][(ret'.op = "generate" /\ ret'.result.stage = "load") => data_images' = data_images]_vars

(***************************************************************************)
(* C9: a tilemap is created only for a sequence of at least one file, all  *)
(* of them loaded; a selection that is no sequence of the folder ('none',  *)
(* a schema the cache no longer holds) ends the run before any image is    *)
(* loaded or created; and no sequence the cache holds is empty.            *)
(***************************************************************************)
C9_NeverEmpty ==
    Generated =>
        /\ Created => Len(ret.result.files) >= 1 /\ ImageCount = Len(ret.result.files)
        /\ (~ret.result.raised \/ ret.result.stage \in {"row_count", "load", "assign"})
               => /\ ret.props.sequence \in DOMAIN cached_image_sequences
                  /\ Len(ret.result.files) = Len(cached_image_sequences[ret.props.sequence])
        /\ ret.result.stage \in {"discover", "sequence"}
               => ~Created /\ ImageCount = 0 /\ ret.result.files = <<>>
        /\ (ret.result.stage # "discover" /\ ret.props.sequence \notin DOMAIN cached_image_sequences)
               => ret.result.stage = "sequence"
        /\ \A schema \in DOMAIN cached_image_sequences :
               Len(cached_image_sequences[schema]) >= 1

\* the run was started for a sequence the folder does not hold, or for 'none', and was rejected
C9_Witness ==
    /\ Generated
    /\ ret.result.stage = "sequence"
    /\ ret.result.scans = <<TRUE>>
    /\ DOMAIN cached_image_sequences # {}
    /\ data_images = <<>>

(***************************************************************************)
(* C10: every line copy reads inside the source image's pixels and writes  *)
(* inside the tilemap's, as many components as it reads, so tilemap_pixels *)
(* has width * height * 4 components when it is assigned to the image.     *)
(***************************************************************************)
C10_InBounds ==
    Generated =>
        /\ ret.result.stage # "assign"
        /\ Finished => Len(ret.result.tilemap_pixels) = AtlasWidth * AtlasHeight * 4
        /\ \A c \in Copies :
               /\ c.tile_length = width(ret.result.images[c.i + 1].size)
                                      * height(ret.result.images[c.i + 1].size) * 4
               /\ 0 <= c.tile_x1 /\ c.tile_x1 < c.tile_x2 /\ c.tile_x2 <= c.tile_length
               /\ c.tilemap_length = AtlasWidth * AtlasHeight * 4
               /\ 0 <= c.tilemap_x1 /\ c.tilemap_x1 < c.tilemap_x2
               /\ c.tilemap_x2 <= c.tilemap_length
               /\ c.read = c.tile_x2 - c.tile_x1
               /\ c.read = c.tilemap_x2 - c.tilemap_x1

\* images of different sizes were copied into a tilemap of two rows, top to bottom
C10_Witness ==
    /\ Finished
    /\ MixedSizes
    /\ RowCount = 2
    /\ ret.props.row_order = "top_to_bottom"
    /\ Len(ret.result.copies) >= 3

====
